---- MODULE Spec2Model ----
(***************************************************************************)
(* The browser client of the text-to-speech generator                      *)
(* (frontend/src/App.js): the form state of the App component, its two     *)
(* asynchronous handlers handleSingleGenerate and handleBatchGenerate,     *)
(* the batch parser parseBatchInput, and the part of the browser the       *)
(* handlers act on (outstanding POST requests, alert(), object URLs,       *)
(* saveAs(), the audio element).                                           *)
(*                                                                         *)
(* Strings are sequences of one-character strings, so that trim(), the     *)
(* quote-matching regular expression and the decimal rendering of the      *)
(* file number are computed rather than assumed.  A speed is held in       *)
(* hundredths (100 is the 1.0 of the source).                              *)
(***************************************************************************)
EXTENDS Integers, Sequences, FiniteSets, TLC

VARIABLES
    text,                   \* useState("") l.12
    voice,                  \* useState("alloy") l.13
    speed,                  \* useState(1.0) l.14
    model,                  \* useState("tts-1") l.15
    customVoicePrompt,      \* useState("") l.16
    useCustomVoice,         \* useState(false) l.17
    singleAudioUrl,         \* useState(null) l.18
    isGenerating,           \* useState(false) l.19
    batchInputText,         \* useState('') l.23
    batchCustomVoicePrompt, \* useState("") l.24
    useBatchCustomVoice,    \* useState(false) l.25
    batchVoice,             \* useState("alloy") l.26
    batchSpeed,             \* useState(1.0) l.27
    batchModel,             \* useState("tts-1") l.28
    isGeneratingBatch,      \* useState(false) l.29
    activeTab,              \* useState("single") l.30
    singleRequests,         \* outstanding POST /tts/single, each with the closure of its handler call
    batchRequests,          \* outstanding POST /tts/batch
    alerts,                 \* number of alert() dialogs shown
    createdUrls,            \* number of URL.createObjectURL calls; the URLs are 1..createdUrls
    revokedUrls,            \* the URLs given to URL.revokeObjectURL
    downloads,              \* number of saveAs() calls
    plays,                  \* number of audioRef.current.play() calls
    batchTexts              \* list-editor variant (docker-compose.yml): useState([...]) l.60-62

formVars  == <<text, voice, speed, model, customVoicePrompt, useCustomVoice>>
batchFormVars == <<batchInputText, batchCustomVoicePrompt, useBatchCustomVoice,
                   batchVoice, batchSpeed, batchModel>>
singleVars == <<singleAudioUrl, isGenerating, singleRequests, createdUrls, revokedUrls, plays>>
batchVars == <<isGeneratingBatch, batchRequests, downloads>>
vars == <<formVars, batchFormVars, singleVars, batchVars, activeTab, alerts, batchTexts>>

----------------------------------------------------------------------------
(* Bounds of the exploration *)

MaxTextLen == 1      \* longest single text / voice prompt the user types
MaxInputLen == 5     \* longest batch input enumerated exhaustively
MaxAlerts == 3       \* alert() dialogs in one run
MaxUrls == 2         \* object URLs created in one run
MaxDownloads == 2    \* saveAs() calls in one run
MaxPlays == 2        \* play() calls in one run
MaxItems == 2        \* items of the batch list of the list-editor variant

----------------------------------------------------------------------------
(* Values *)

Null == 0                      \* the null of singleAudioUrl; object URLs are 1, 2, ...
Undefined == <<"undefined">>   \* JavaScript undefined: no string, as strings hold single characters
DQ == "\""
SQ == "'"

Str(s) == [i \in 1..Len(s) |-> s[i]]
Strings(chars, n) == UNION {[1..k -> chars] : k \in 0..n}

Voices == {"alloy", "echo"}
Models == {"tts-1", "tts-1-hd"}
Speeds == {100, 150}

IsWhitespace(c) == c \in {" ", "\t", "\n"}

RECURSIVE TrimStart(_)
TrimStart(s) ==
    IF s # <<>> /\ IsWhitespace(Head(s)) THEN TrimStart(Tail(s)) ELSE s

RECURSIVE TrimEnd(_)
TrimEnd(s) ==
    IF s # <<>> /\ IsWhitespace(s[Len(s)]) THEN TrimEnd(SubSeq(s, 1, Len(s) - 1)) ELSE s

\* String.prototype.trim
Trim(s) == TrimEnd(TrimStart(s))

\* JavaScript truthiness of a string-or-undefined value
Truthy(v) == v # Undefined /\ v # <<>>

\* a || b
Or(a, b) == IF Truthy(a) THEN a ELSE b

Digit(d) == CASE d = 0 -> "0" [] d = 1 -> "1" [] d = 2 -> "2" [] d = 3 -> "3" [] d = 4 -> "4"
              [] d = 5 -> "5" [] d = 6 -> "6" [] d = 7 -> "7" [] d = 8 -> "8" [] d = 9 -> "9"

\* Number to string, as a template literal renders a positive integer
RECURSIVE NumberToString(_)
NumberToString(n) ==
    IF n < 10 THEN <<Digit(n)>> ELSE NumberToString(n \div 10) \o <<Digit(n % 10)>>

\* `speech_${currentFileName}` l.122
FileName(currentFileName) ==
    <<"s", "p", "e", "e", "c", "h", "_">> \o NumberToString(currentFileName)

----------------------------------------------------------------------------
(* parseBatchInput, l.106-131 *)

Min(S) == CHOOSE x \in S : \A y \in S : x <= y

\* Where the quote opened at i is closed: the first later occurrence of the same
\* quote character ([^"]* and [^']* cannot run over one), 0 when there is none.
ClosingQuote(input, i) ==
    LET later == {j \in (i + 1)..Len(input) : input[j] = input[i]}
    IN  IF later = {} THEN 0 ELSE Min(later)

\* Mutant: a quote is closed by the next quote character of either kind
RegexExec_anyClosingQuote(input, lastIndex) ==
    LET close(i) == LET later == {j \in (i + 1)..Len(input) : input[j] \in {DQ, SQ}}
                    IN  IF later = {} THEN 0 ELSE Min(later)
        starts == {i \in lastIndex..Len(input) : input[i] \in {DQ, SQ} /\ close(i) # 0}
    IN  IF starts = {}
        THEN [found |-> FALSE]
        ELSE LET i == Min(starts)
                 j == close(i)
                 inner == SubSeq(input, i + 1, j - 1)
             IN  [found |-> TRUE,
                  index |-> i,
                  g1 |-> IF input[i] = DQ THEN inner ELSE Undefined,
                  g2 |-> IF input[i] = SQ THEN inner ELSE Undefined,
                  lastIndex |-> j + 1]

\* One regex.exec(input) of /"([^"]*)"|'([^']*)'/g (l.113, l.116) with the scan
\* starting at lastIndex (positions count from 1): the leftmost position at which one
\* of the two alternatives matches.  g1 and g2 are the two capture groups; the group
\* of the alternative that did not take part is undefined.
RegexExec(input, lastIndex) ==
    LET starts == {i \in lastIndex..Len(input) :
                      input[i] \in {DQ, SQ} /\ ClosingQuote(input, i) # 0}
    IN  IF starts = {}
        THEN [found |-> FALSE]
        ELSE LET i == Min(starts)
                 j == ClosingQuote(input, i)
                 inner == SubSeq(input, i + 1, j - 1)
             IN  [found |-> TRUE,
                  index |-> i,
                  g1 |-> IF input[i] = DQ THEN inner ELSE Undefined,
                  g2 |-> IF input[i] = SQ THEN inner ELSE Undefined,
                  lastIndex |-> j + 1]

\* const text = match[1] || match[2]  l.118
MatchText(match) == Or(match.g1, match.g2)

\* Mutant: the item takes the voice prompt whether or not the flag is set
BatchItem_promptAlways(itemText, currentFileName) ==
    [text |-> itemText,
     voice |-> batchVoice,
     filename |-> FileName(currentFileName),
     speed |-> batchSpeed,
     model |-> batchModel,
     custom_voice_prompt |-> batchCustomVoicePrompt]

\* The object pushed at l.119-126
BatchItem(itemText, currentFileName) ==
    [text |-> itemText,
     voice |-> batchVoice,
     filename |-> FileName(currentFileName),
     speed |-> batchSpeed,
     model |-> batchModel,
     custom_voice_prompt |-> IF useBatchCustomVoice THEN batchCustomVoicePrompt ELSE <<>>]

\* Mutant: the file number is never advanced
NextFileName_unchanged(currentFileName) == currentFileName

\* currentFileName++  l.127
NextFileName(currentFileName) == currentFileName + 1

\* The while loop of l.116-128
RECURSIVE ParseLoop(_, _, _, _)
ParseLoop(input, lastIndex, currentFileName, texts) ==
    LET match == RegexExec(input, lastIndex)
    IN  IF ~match.found
        THEN texts
        ELSE ParseLoop(input, match.lastIndex, NextFileName(currentFileName),
                       Append(texts, BatchItem(MatchText(match), currentFileName)))

parseBatchInput(input) ==
    IF ~Truthy(Trim(input)) THEN <<>> ELSE ParseLoop(input, 1, 1, <<>>)

----------------------------------------------------------------------------
(* What the user can type *)

TextChars == {" ", "a"}
InputChars == {DQ, SQ, "a", " "}

\* Values of the single text and of the two voice prompts
Texts == Strings(TextChars, MaxTextLen)

\* The two batch inputs the specification gives as examples
ExampleABC == Str(<<DQ, "a", DQ, ",", " ", DQ, "b", DQ, ",", " ", DQ, "c", DQ>>)
ExampleFooBar == Str(<<"f", "o", "o", ",", " ", DQ, "b", "a", "r", DQ>>)

\* A batch input of eleven items, so that file numbers of two digits occur
RECURSIVE Repeat(_, _)
Repeat(s, n) == IF n = 0 THEN <<>> ELSE s \o Repeat(s, n - 1)
ExampleEleven == Repeat(<<SQ, "a", SQ>>, 11)

\* Batch inputs of the exhaustive exploration of parseBatchInput
BatchInputs == Strings(InputChars, MaxInputLen) \cup {ExampleABC, ExampleFooBar, ExampleEleven}

\* Batch inputs typed while requests of both kinds come and go: one without and one
\* with an item, besides the empty input
TypedBatchInputs == {<<>>, <<"a">>, <<DQ, "a", DQ>>}

\* Batch inputs submitted under each batch-level setting
BatchSamples == {<<>>, <<"a">>, <<DQ, "a", DQ>>, <<DQ, DQ>>, <<SQ, " ", SQ, DQ, "a", DQ>>}

\* The batch list of the list-editor variant after the first render
\* (docker-compose.yml l.60-62)
InitialBatchTexts ==
    << [text |-> <<>>, voice |-> "alloy", filename |-> FileName(1),
        speed |-> 100, model |-> "tts-1"] >>

----------------------------------------------------------------------------
(* The state after the first render, l.12-30 *)

Init ==
    /\ text = <<>> /\ voice = "alloy" /\ speed = 100 /\ model = "tts-1"
    /\ customVoicePrompt = <<>> /\ useCustomVoice = FALSE
    /\ singleAudioUrl = Null /\ isGenerating = FALSE
    /\ batchInputText = <<>> /\ batchCustomVoicePrompt = <<>> /\ useBatchCustomVoice = FALSE
    /\ batchVoice = "alloy" /\ batchSpeed = 100 /\ batchModel = "tts-1"
    /\ isGeneratingBatch = FALSE
    /\ activeTab = "single"
    /\ singleRequests = <<>> /\ batchRequests = <<>>
    /\ alerts = 0 /\ createdUrls = 0 /\ revokedUrls = {} /\ downloads = 0 /\ plays = 0
    /\ batchTexts = InitialBatchTexts

----------------------------------------------------------------------------
(* The form controls *)

\* onClick={() => setActiveTab(...)}  l.186, l.196
SetActiveTab(tab) ==
    /\ activeTab # tab
    /\ activeTab' = tab
    /\ UNCHANGED <<batchTexts, formVars, batchFormVars, singleVars, batchVars, alerts>>

\* onChange={(e) => setText(e.target.value)}  l.317, in the single tab (l.205)
SetText(value) ==
    /\ activeTab = "single"
    /\ text # value
    /\ text' = value
    /\ UNCHANGED <<voice, speed, model, customVoicePrompt, useCustomVoice>>
    /\ UNCHANGED <<batchTexts, batchFormVars, singleVars, batchVars, activeTab, alerts>>

\* onChange={(e) => setBatchInputText(e.target.value)}  l.476, in the batch tab (l.361)
SetBatchInputText(value) ==
    /\ activeTab = "batch"
    /\ batchInputText # value
    /\ batchInputText' = value
    /\ UNCHANGED <<batchCustomVoicePrompt, useBatchCustomVoice, batchVoice, batchSpeed, batchModel>>
    /\ UNCHANGED <<batchTexts, formVars, singleVars, batchVars, activeTab, alerts>>

\* The two radio buttons of l.371-389
SetUseBatchCustomVoice(value) ==
    /\ activeTab = "batch"
    /\ useBatchCustomVoice # value
    /\ useBatchCustomVoice' = value
    /\ UNCHANGED <<batchInputText, batchCustomVoicePrompt, batchVoice, batchSpeed, batchModel>>
    /\ UNCHANGED <<batchTexts, formVars, singleVars, batchVars, activeTab, alerts>>

\* onChange={(e) => setBatchVoice(e.target.value)}  l.404, shown when !useBatchCustomVoice (l.397)
SetBatchVoice(value) ==
    /\ activeTab = "batch"
    /\ ~useBatchCustomVoice
    /\ batchVoice # value
    /\ batchVoice' = value
    /\ UNCHANGED <<batchInputText, batchCustomVoicePrompt, useBatchCustomVoice, batchSpeed, batchModel>>
    /\ UNCHANGED <<batchTexts, formVars, singleVars, batchVars, activeTab, alerts>>

----------------------------------------------------------------------------
(* handleSingleGenerate, l.54-103 *)

RemoveAt(seq, i) == SubSeq(seq, 1, i - 1) \o SubSeq(seq, i + 1, Len(seq))

\* Every outstanding request may still fail and show its alert: a click is explored
\* only while the alerts shown and those still possible stay within MaxAlerts.
AlertBudget == alerts + Len(singleRequests) + Len(batchRequests) < MaxAlerts

\* Mutant: the button is never disabled
SingleButtonEnabled_neverDisabled == activeTab = "single"

\* The Generate Speech button is rendered in the single tab (l.205) and
\* disabled={isGenerating} (l.329)
SingleButtonEnabled == activeTab = "single" /\ ~isGenerating

\* Mutant: the text is tested without trim()
SingleTextMissing_noTrim == ~Truthy(text)

\* !text.trim()  l.55
SingleTextMissing == ~Truthy(Trim(text))

\* Mutant: the voice prompt is tested without trim()
SinglePayload_noTrim ==
    IF useCustomVoice /\ Truthy(customVoicePrompt)
    THEN [text |-> text, speed |-> speed, model |-> model,
          custom_voice_prompt |-> customVoicePrompt]
    ELSE [text |-> text, speed |-> speed, model |-> model, voice |-> voice]

\* The payload of l.63-74
SinglePayload ==
    IF useCustomVoice /\ Truthy(Trim(customVoicePrompt))
    THEN [text |-> text, speed |-> speed, model |-> model,
          custom_voice_prompt |-> customVoicePrompt]
    ELSE [text |-> text, speed |-> speed, model |-> model, voice |-> voice]

\* The click: l.55-80, up to the await.  The request keeps the singleAudioUrl of the
\* render the handler was created in (its closure), which l.86-87 read later.
handleSingleGenerate ==
    /\ SingleButtonEnabled
    /\ AlertBudget
    /\ IF SingleTextMissing
       THEN /\ alerts' = alerts + 1
            /\ UNCHANGED <<isGenerating, singleRequests>>
       ELSE /\ isGenerating' = TRUE
            /\ singleRequests' = Append(singleRequests,
                    [payload |-> SinglePayload, singleAudioUrl |-> singleAudioUrl])
            /\ UNCHANGED alerts
    /\ UNCHANGED <<singleAudioUrl, createdUrls, revokedUrls, plays>>
    /\ UNCHANGED <<batchTexts, formVars, batchFormVars, batchVars, activeTab>>

\* audioRef.current at l.93: the audio element exists when the last render had the
\* single tab active and a singleAudioUrl (l.205, l.335).  Whether the render for
\* setSingleAudioUrl(url) of l.90 has happened by l.93 (flushed) depends on the React
\* release in use: updates made after an await are flushed at once before React 18
\* and batched until the handler returns from React 18 on.
AudioRefCurrent(flushed) ==
    /\ activeTab = "single"
    /\ flushed \/ singleAudioUrl # Null

\* Mutant: the previous URL is not revoked
handleSingleGenerate_then_noRevoke(i) ==
    /\ i \in 1..Len(singleRequests)
    /\ createdUrls < MaxUrls
    /\ createdUrls' = createdUrls + 1
    /\ singleAudioUrl' = createdUrls + 1
    /\ UNCHANGED revokedUrls
    /\ \E flushed \in BOOLEAN :
          IF AudioRefCurrent(flushed)
          THEN plays < MaxPlays /\ plays' = plays + 1
          ELSE UNCHANGED plays
    /\ isGenerating' = FALSE
    /\ singleRequests' = RemoveAt(singleRequests, i)
    /\ UNCHANGED <<batchTexts, formVars, batchFormVars, batchVars, activeTab, alerts>>

\* The request resolves: l.82-96 and the finally of l.100-102
handleSingleGenerate_then(i) ==
    /\ i \in 1..Len(singleRequests)
    /\ createdUrls < MaxUrls
    /\ LET closure == singleRequests[i]
           url == createdUrls + 1
       IN  /\ createdUrls' = url
           /\ revokedUrls' = IF closure.singleAudioUrl # Null
                             THEN revokedUrls \cup {closure.singleAudioUrl}
                             ELSE revokedUrls
           /\ singleAudioUrl' = url
    /\ \E flushed \in BOOLEAN :
          IF AudioRefCurrent(flushed)
          THEN plays < MaxPlays /\ plays' = plays + 1
          ELSE UNCHANGED plays
    /\ isGenerating' = FALSE
    /\ singleRequests' = RemoveAt(singleRequests, i)
    /\ UNCHANGED <<batchTexts, formVars, batchFormVars, batchVars, activeTab, alerts>>

\* Mutant: the catch drops the audio held (setSingleAudioUrl(null))
handleSingleGenerate_catch_dropsAudio(i) ==
    /\ i \in 1..Len(singleRequests)
    /\ alerts' = alerts + 1
    /\ isGenerating' = FALSE
    /\ singleAudioUrl' = Null
    /\ singleRequests' = RemoveAt(singleRequests, i)
    /\ UNCHANGED <<createdUrls, revokedUrls, plays>>
    /\ UNCHANGED <<batchTexts, formVars, batchFormVars, batchVars, activeTab>>

\* Mutant: the catch posts the payload again
handleSingleGenerate_catch_retry(i) ==
    /\ i \in 1..Len(singleRequests)
    /\ alerts' = alerts + 1
    /\ isGenerating' = TRUE
    /\ singleRequests' = Append(RemoveAt(singleRequests, i), singleRequests[i])
    /\ UNCHANGED <<singleAudioUrl, createdUrls, revokedUrls, plays>>
    /\ UNCHANGED <<batchTexts, formVars, batchFormVars, batchVars, activeTab>>

\* Mutant: the flag is reset on success only (no finally)
handleSingleGenerate_catch_noFinally(i) ==
    /\ i \in 1..Len(singleRequests)
    /\ alerts' = alerts + 1
    /\ singleRequests' = RemoveAt(singleRequests, i)
    /\ UNCHANGED <<isGenerating, singleAudioUrl, createdUrls, revokedUrls, plays>>
    /\ UNCHANGED <<batchTexts, formVars, batchFormVars, batchVars, activeTab>>

\* The request fails: the catch of l.97-99 and the finally of l.100-102
handleSingleGenerate_catch(i) ==
    /\ i \in 1..Len(singleRequests)
    /\ alerts' = alerts + 1
    /\ isGenerating' = FALSE
    /\ singleRequests' = RemoveAt(singleRequests, i)
    /\ UNCHANGED <<singleAudioUrl, createdUrls, revokedUrls, plays>>
    /\ UNCHANGED <<batchTexts, formVars, batchFormVars, batchVars, activeTab>>

----------------------------------------------------------------------------
(* handleBatchGenerate, l.134-163 *)

\* The Generate & Download Zip button is rendered in the batch tab (l.361) and
\* disabled={isGeneratingBatch} (l.492)
BatchButtonEnabled == activeTab = "batch" /\ ~isGeneratingBatch

\* The request body of l.148-151
BatchBody(parsedTexts) ==
    [texts |-> parsedTexts, use_custom_prompt |-> useBatchCustomVoice]

\* The click: l.136-153, up to the await
handleBatchGenerate ==
    /\ BatchButtonEnabled
    /\ AlertBudget
    /\ LET parsedTexts == parseBatchInput(batchInputText)
       IN  IF Len(parsedTexts) = 0
           THEN /\ alerts' = alerts + 1
                /\ UNCHANGED <<isGeneratingBatch, batchRequests>>
           ELSE /\ isGeneratingBatch' = TRUE
                /\ batchRequests' = Append(batchRequests, BatchBody(parsedTexts))
                /\ UNCHANGED alerts
    /\ UNCHANGED downloads
    /\ UNCHANGED <<batchTexts, formVars, batchFormVars, singleVars, activeTab>>

\* The request resolves: l.155-156 and the finally of l.160-162
handleBatchGenerate_then(i) ==
    /\ i \in 1..Len(batchRequests)
    /\ downloads < MaxDownloads
    /\ downloads' = downloads + 1
    /\ isGeneratingBatch' = FALSE
    /\ batchRequests' = RemoveAt(batchRequests, i)
    /\ UNCHANGED <<batchTexts, formVars, batchFormVars, singleVars, activeTab, alerts>>

\* Mutant: the archive is also saved when the request fails
handleBatchGenerate_catch_download(i) ==
    /\ i \in 1..Len(batchRequests)
    /\ alerts' = alerts + 1
    /\ downloads < MaxDownloads
    /\ downloads' = downloads + 1
    /\ isGeneratingBatch' = FALSE
    /\ batchRequests' = RemoveAt(batchRequests, i)
    /\ UNCHANGED <<batchTexts, formVars, batchFormVars, singleVars, activeTab>>

\* Mutant: the finally clears the loading flag of the single handler
handleBatchGenerate_catch_wrongFlag(i) ==
    /\ i \in 1..Len(batchRequests)
    /\ alerts' = alerts + 1
    /\ isGenerating' = FALSE
    /\ batchRequests' = RemoveAt(batchRequests, i)
    /\ UNCHANGED <<isGeneratingBatch, downloads>>
    /\ UNCHANGED <<singleAudioUrl, singleRequests, createdUrls, revokedUrls, plays>>
    /\ UNCHANGED <<batchTexts, formVars, batchFormVars, activeTab>>

\* The request fails: the catch of l.157-159 and the finally of l.160-162
handleBatchGenerate_catch(i) ==
    /\ i \in 1..Len(batchRequests)
    /\ alerts' = alerts + 1
    /\ isGeneratingBatch' = FALSE
    /\ batchRequests' = RemoveAt(batchRequests, i)
    /\ UNCHANGED downloads
    /\ UNCHANGED <<batchTexts, formVars, batchFormVars, singleVars, activeTab>>

----------------------------------------------------------------------------
(* Specifications *)

SingleSettles == \E i \in 1..Len(singleRequests) :
                    handleSingleGenerate_then(i) \/ handleSingleGenerate_catch(i)
BatchSettles == \E i \in 1..Len(batchRequests) :
                    handleBatchGenerate_then(i) \/ handleBatchGenerate_catch(i)

\* The client with the two inputs the validations read being edited at any time
Next ==
    \/ \E tab \in {"single", "batch"} : SetActiveTab(tab)
    \/ \E value \in Texts : SetText(value)
    \/ \E value \in TypedBatchInputs : SetBatchInputText(value)
    \/ handleSingleGenerate
    \/ \E i \in 1..Len(singleRequests) : handleSingleGenerate_then(i)
    \/ \E i \in 1..Len(singleRequests) : handleSingleGenerate_catch(i)
    \/ handleBatchGenerate
    \/ \E i \in 1..Len(batchRequests) : handleBatchGenerate_then(i)
    \/ \E i \in 1..Len(batchRequests) : handleBatchGenerate_catch(i)

Spec == Init /\ [][Next]_vars

\* Every request the client has issued is eventually answered or fails
FairSpec == Spec /\ WF_vars(SingleSettles) /\ WF_vars(BatchSettles)

\* The single form as the user has filled it in, and the single handler
SingleInit ==
    /\ text \in Texts /\ voice \in Voices /\ speed \in Speeds /\ model \in Models
    /\ customVoicePrompt \in Texts /\ useCustomVoice \in BOOLEAN
    /\ singleAudioUrl = Null /\ isGenerating = FALSE
    /\ batchInputText = <<>> /\ batchCustomVoicePrompt = <<>> /\ useBatchCustomVoice = FALSE
    /\ batchVoice = "alloy" /\ batchSpeed = 100 /\ batchModel = "tts-1"
    /\ isGeneratingBatch = FALSE
    /\ activeTab = "single"
    /\ singleRequests = <<>> /\ batchRequests = <<>>
    /\ alerts = 0 /\ createdUrls = 0 /\ revokedUrls = {} /\ downloads = 0 /\ plays = 0
    /\ batchTexts = InitialBatchTexts

SingleNext ==
    \/ \E tab \in {"single", "batch"} : SetActiveTab(tab)
    \/ handleSingleGenerate
    \/ \E i \in 1..Len(singleRequests) : handleSingleGenerate_then(i)
    \/ \E i \in 1..Len(singleRequests) : handleSingleGenerate_catch(i)

SingleSpec == SingleInit /\ [][SingleNext]_vars

\* The batch form as the user has filled it in, the two controls of the voice
\* selection still being changed, and the batch handler
BatchInit ==
    /\ text = <<>> /\ voice = "alloy" /\ speed = 100 /\ model = "tts-1"
    /\ customVoicePrompt = <<>> /\ useCustomVoice = FALSE
    /\ singleAudioUrl = Null /\ isGenerating = FALSE
    /\ batchInputText \in BatchSamples /\ batchCustomVoicePrompt \in Texts
    /\ useBatchCustomVoice \in BOOLEAN
    /\ batchVoice \in Voices /\ batchSpeed \in Speeds /\ batchModel \in Models
    /\ isGeneratingBatch = FALSE
    /\ activeTab = "batch"
    /\ singleRequests = <<>> /\ batchRequests = <<>>
    /\ alerts = 0 /\ createdUrls = 0 /\ revokedUrls = {} /\ downloads = 0 /\ plays = 0
    /\ batchTexts = InitialBatchTexts

BatchNext ==
    \/ \E value \in BOOLEAN : SetUseBatchCustomVoice(value)
    \/ \E value \in Voices : SetBatchVoice(value)
    \/ handleBatchGenerate
    \/ \E i \in 1..Len(batchRequests) : handleBatchGenerate_then(i)
    \/ \E i \in 1..Len(batchRequests) : handleBatchGenerate_catch(i)

BatchSpec == BatchInit /\ [][BatchNext]_vars

\* parseBatchInput on every batch input of the bounded alphabet: the input as the
\* user has typed it, and the batch handler
ParseInit ==
    /\ text = <<>> /\ voice = "alloy" /\ speed = 100 /\ model = "tts-1"
    /\ customVoicePrompt = <<>> /\ useCustomVoice = FALSE
    /\ singleAudioUrl = Null /\ isGenerating = FALSE
    /\ batchInputText \in BatchInputs
    /\ batchCustomVoicePrompt = <<>> /\ useBatchCustomVoice = FALSE
    /\ batchVoice = "alloy" /\ batchSpeed = 100 /\ batchModel = "tts-1"
    /\ isGeneratingBatch = FALSE
    /\ activeTab = "batch"
    /\ singleRequests = <<>> /\ batchRequests = <<>>
    /\ alerts = 0 /\ createdUrls = 0 /\ revokedUrls = {} /\ downloads = 0 /\ plays = 0
    /\ batchTexts = InitialBatchTexts

ParseNext ==
    \/ handleBatchGenerate
    \/ \E i \in 1..Len(batchRequests) : handleBatchGenerate_then(i)
    \/ \E i \in 1..Len(batchRequests) : handleBatchGenerate_catch(i)

ParseSpec == ParseInit /\ [][ParseNext]_vars

----------------------------------------------------------------------------
(* The list-editor variant of the client, docker-compose.yml l.40-400: the batch  *)
(* tab edits a list of items, batchTexts, instead of one quoted input.  Its       *)
(* isGeneratingBatch, activeTab, alert() and saveAs() are the variables above.    *)

\* What the user types into the fields of an item
TypedItemTexts == {<<"a">>, <<" ">>}
TypedFileNames == {FileName(2)}
ItemValues(field) ==
    CASE field = "text" -> TypedItemTexts
      [] field = "filename" -> TypedFileNames

\* The fields edited in the exploration; the voice select (l.329-334) goes through
\* the same updateBatchText and is left at its value
EditedFields == {"text", "filename"}

\* Mutant: the added item is named like the last one
addBatchText_sameName ==
    /\ Len(batchTexts) < MaxItems
    /\ batchTexts' = Append(batchTexts,
            [text |-> <<>>, voice |-> "alloy", filename |-> FileName(Len(batchTexts))])
    /\ UNCHANGED <<formVars, batchFormVars, singleVars, batchVars, activeTab, alerts>>

\* addBatchText, l.153-158
addBatchText ==
    /\ Len(batchTexts) < MaxItems
    /\ batchTexts' = Append(batchTexts,
            [text |-> <<>>, voice |-> "alloy", filename |-> FileName(Len(batchTexts) + 1)])
    /\ UNCHANGED <<formVars, batchFormVars, singleVars, batchVars, activeTab, alerts>>

\* Mutant: the last item can be removed too
removeBatchText_noGuard(index) ==
    /\ index \in 1..Len(batchTexts)
    /\ LET newTexts == RemoveAt(batchTexts, index)
       IN  batchTexts' = [idx \in 1..Len(newTexts) |->
                             [newTexts[idx] EXCEPT !.filename = FileName(idx)]]
    /\ UNCHANGED <<formVars, batchFormVars, singleVars, batchVars, activeTab, alerts>>

\* removeBatchText, l.161-173, for the item at position index (counted from 1; the
\* idx + 1 of l.170 is the position).  The handler is modelled as called on any
\* item, also where the Remove button is disabled (l.306).
removeBatchText(index) ==
    /\ index \in 1..Len(batchTexts)
    /\ IF Len(batchTexts) = 1
       THEN UNCHANGED batchTexts
       ELSE LET newTexts == RemoveAt(batchTexts, index)
            IN  batchTexts' = [idx \in 1..Len(newTexts) |->
                                  [newTexts[idx] EXCEPT !.filename = FileName(idx)]]
    /\ UNCHANGED <<formVars, batchFormVars, singleVars, batchVars, activeTab, alerts>>

\* updateBatchText, l.176-180, from the three inputs of an item (l.315-355)
updateBatchText(index, field, value) ==
    /\ index \in 1..Len(batchTexts)
    /\ batchTexts[index][field] # value
    /\ batchTexts' = [batchTexts EXCEPT ![index][field] = value]
    /\ UNCHANGED <<formVars, batchFormVars, singleVars, batchVars, activeTab, alerts>>

\* The Generate & Download Zip button of the variant: in the batch tab (l.288),
\* disabled={isGeneratingBatch} (l.376)
ListButtonEnabled == activeTab = "batch" /\ ~isGeneratingBatch

\* batchTexts.filter(item => !item.text.trim())  l.128
emptyTexts == SelectSeq(batchTexts, LAMBDA item : ~Truthy(Trim(item.text)))

\* Mutant: the texts are not validated
listHandleBatchGenerate_noValidation ==
    /\ ListButtonEnabled
    /\ AlertBudget
    /\ isGeneratingBatch' = TRUE
    /\ batchRequests' = Append(batchRequests, [texts |-> batchTexts])
    /\ UNCHANGED <<alerts, downloads>>
    /\ UNCHANGED <<batchTexts, formVars, batchFormVars, singleVars, activeTab>>

\* handleBatchGenerate of the variant, the click: l.126-140, up to the await
listHandleBatchGenerate ==
    /\ ListButtonEnabled
    /\ AlertBudget
    /\ IF Len(emptyTexts) > 0
       THEN /\ alerts' = alerts + 1
            /\ UNCHANGED <<isGeneratingBatch, batchRequests>>
       ELSE /\ isGeneratingBatch' = TRUE
            /\ batchRequests' = Append(batchRequests, [texts |-> batchTexts])
            /\ UNCHANGED alerts
    /\ UNCHANGED downloads
    /\ UNCHANGED <<batchTexts, formVars, batchFormVars, singleVars, activeTab>>

\* The request resolves: l.142-143 and the finally of l.147-149, the same text as
\* l.155-162 of App.js
listHandleBatchGenerate_then(i) == handleBatchGenerate_then(i)

\* The request fails: l.144-149, the same text as l.157-162 of App.js
listHandleBatchGenerate_catch(i) == handleBatchGenerate_catch(i)

ListInit ==
    /\ text = <<>> /\ voice = "alloy" /\ speed = 100 /\ model = "tts-1"
    /\ customVoicePrompt = <<>> /\ useCustomVoice = FALSE
    /\ singleAudioUrl = Null /\ isGenerating = FALSE
    /\ batchInputText = <<>> /\ batchCustomVoicePrompt = <<>> /\ useBatchCustomVoice = FALSE
    /\ batchVoice = "alloy" /\ batchSpeed = 100 /\ batchModel = "tts-1"
    /\ isGeneratingBatch = FALSE
    /\ activeTab = "batch"
    /\ singleRequests = <<>> /\ batchRequests = <<>>
    /\ alerts = 0 /\ createdUrls = 0 /\ revokedUrls = {} /\ downloads = 0 /\ plays = 0
    /\ batchTexts = InitialBatchTexts

ListNext ==
    \/ addBatchText
    \/ \E index \in 1..Len(batchTexts) : removeBatchText(index)
    \/ \E index \in 1..Len(batchTexts), field \in EditedFields :
          \E value \in ItemValues(field) : updateBatchText(index, field, value)
    \/ listHandleBatchGenerate
    \/ \E i \in 1..Len(batchRequests) : listHandleBatchGenerate_then(i)
    \/ \E i \in 1..Len(batchRequests) : listHandleBatchGenerate_catch(i)

ListSpec == ListInit /\ [][ListNext]_vars

----------------------------------------------------------------------------
(* Notions the claims are stated in *)

\* A string that is empty or holds only whitespace
Blank(s) == \A k \in 1..Len(s) : IsWhitespace(s[k])

\* The other state of the client, as a click that is rejected must leave it
RestOfClient == <<formVars, batchFormVars, singleVars, batchVars, activeTab, batchTexts>>

----------------------------------------------------------------------------
(* Claims *)

\* C1: at most one POST /tts/single and at most one POST /tts/batch is outstanding
\* in every reachable state, for any sequence of clicks and request completions.
C1_OneOutstandingPerKind ==
    /\ Len(singleRequests) <= 1
    /\ Len(batchRequests) <= 1

\* C1 witness: one request of each kind is outstanding while the user is in the
\* single tab with a text that would pass the validation of a second click.
C1_Witness ==
    /\ Len(singleRequests) = 1 /\ Len(batchRequests) = 1
    /\ activeTab = "single" /\ ~Blank(text)

\* C2: a step in which a request of a kind settles (success or failure) ends with
\* the loading flag of that kind false; a loading flag is true only while a request
\* of its kind is outstanding; and, every request being answered eventually, a
\* loading flag that is true becomes false.
C2_LoadingFlagsReset ==
    /\ [][Len(singleRequests') < Len(singleRequests) => ~isGenerating']_vars
    /\ [][Len(batchRequests') < Len(batchRequests) => ~isGeneratingBatch']_vars
    /\ [](isGenerating => Len(singleRequests) > 0)
    /\ [](isGeneratingBatch => Len(batchRequests) > 0)
    /\ (isGenerating ~> ~isGenerating)
    /\ (isGeneratingBatch ~> ~isGeneratingBatch)

\* C2 witness: a single request has succeeded and a batch request has succeeded,
\* and both flags are false again.
C2_Witness ==
    /\ createdUrls >= 1 /\ downloads >= 1
    /\ ~isGenerating /\ ~isGeneratingBatch

\* C3: while the single text is blank no step issues a single request, and while the
\* batch input parses to no item no step issues a batch request; a click on such an
\* input shows one alert and changes nothing else of the client.
C3_InvalidInputSendsNothing ==
    [][ /\ Blank(text) => Len(singleRequests') <= Len(singleRequests)
        /\ Len(parseBatchInput(batchInputText)) = 0
              => Len(batchRequests') <= Len(batchRequests)
        /\ (handleSingleGenerate /\ Blank(text))
              => (alerts' = alerts + 1 /\ UNCHANGED RestOfClient)
        /\ (handleBatchGenerate /\ Len(parseBatchInput(batchInputText)) = 0)
              => (alerts' = alerts + 1 /\ UNCHANGED RestOfClient)
      ]_vars

\* C3 witness: two alerts have been shown although no request was ever answered or
\* is outstanding, the text being whitespace and the batch input having no quotes.
C3_Witness ==
    /\ alerts = 2 /\ createdUrls = 0 /\ downloads = 0
    /\ singleRequests = <<>> /\ batchRequests = <<>>
    /\ text = <<" ">> /\ batchInputText = <<"a">>

\* C10: the object URL held in singleAudioUrl has been created and never revoked, and
\* every other object URL the client created has been revoked.
C10_HeldUrlLiveOthersRevoked ==
    /\ singleAudioUrl # Null
          => (singleAudioUrl \in 1..createdUrls /\ singleAudioUrl \notin revokedUrls)
    /\ \A url \in 1..createdUrls : url # singleAudioUrl => url \in revokedUrls

\* C10 witness: a second single generation has succeeded: the first URL is revoked
\* and the second is held.
C10_Witness ==
    /\ createdUrls = 2 /\ singleAudioUrl = 2 /\ revokedUrls = {1}

\* The quoted segments of a string, scanned from the left: a segment opens at a
\* quote character that is repeated later in the string and closes at its first
\* repetition; the scan goes on after the closing quote.
RECURSIVE QuotedSegmentsFrom(_, _)
QuotedSegmentsFrom(s, p) ==
    IF p > Len(s) THEN <<>>
    ELSE IF s[p] \in {DQ, SQ} /\ \E q \in (p + 1)..Len(s) : s[q] = s[p]
    THEN LET q == CHOOSE q \in (p + 1)..Len(s) :
                     s[q] = s[p] /\ \A m \in (p + 1)..(q - 1) : s[m] # s[p]
         IN  <<SubSeq(s, p + 1, q - 1)>> \o QuotedSegmentsFrom(s, q + 1)
    ELSE QuotedSegmentsFrom(s, p + 1)

QuotedSegments(s) == QuotedSegmentsFrom(s, 1)

\* Some quote character occurs twice in the string
HasQuotedSegment(s) ==
    \E p, q \in 1..Len(s) : p < q /\ s[p] = s[q] /\ s[p] \in {DQ, SQ}

\* t stands in s between two quote characters of one kind, and holds none of that kind
EnclosedInQuotes(s, t) ==
    \E p, q \in 1..Len(s) :
        /\ p < q /\ s[p] = s[q] /\ s[p] \in {DQ, SQ}
        /\ SubSeq(s, p + 1, q - 1) = t
        /\ \A m \in 1..Len(t) : t[m] # s[p]

\* The names speech_1 ... speech_11
Numeral == << <<"1">>, <<"2">>, <<"3">>, <<"4">>, <<"5">>, <<"6">>, <<"7">>, <<"8">>,
              <<"9">>, <<"1", "0">>, <<"1", "1">> >>
SpeechName(k) == <<"s", "p", "e", "e", "c", "h", "_">> \o Numeral[k]

\* C4: the items of a batch request are the quoted segments of the input in input
\* order: as many items as segments, the k-th item with the content of the k-th
\* segment as text and speech_k as filename; the input "a", "b", "c" gives three
\* items named speech_1, speech_2, speech_3.
C4_OneItemPerQuotedSegment ==
    \A r \in 1..Len(batchRequests) :
        LET texts == batchRequests[r].texts
            segments == QuotedSegments(batchInputText)
        IN  /\ Len(texts) = Len(segments)
            /\ \A k \in 1..Len(texts) :
                  /\ texts[k].text = segments[k]
                  /\ texts[k].filename = SpeechName(k)
            /\ batchInputText = ExampleABC
                  => /\ Len(texts) = 3
                     /\ \A k \in 1..3 : texts[k].filename = SpeechName(k)

\* C5: text outside quotes is dropped: an input in which no quote character occurs
\* twice gives no item, hence no request; there are as many items as quoted segments
\* and the text of an item, where it has one, stands in the input between two quotes
\* of one kind; the input foo, "bar" gives the one item bar.
C5_UnquotedTextDropped ==
    /\ ~HasQuotedSegment(batchInputText) => batchRequests = <<>>
    /\ \A r \in 1..Len(batchRequests) :
          LET texts == batchRequests[r].texts
          IN  /\ Len(texts) = Len(QuotedSegments(batchInputText))
              /\ \A k \in 1..Len(texts) :
                    texts[k].text # Undefined
                        => EnclosedInQuotes(batchInputText, texts[k].text)
              /\ batchInputText = ExampleFooBar
                    => (Len(texts) = 1 /\ texts[1].text = <<"b", "a", "r">>)

\* C5 witness: the request for the input foo, "bar" is outstanding.
C5_Witness ==
    /\ batchInputText = ExampleFooBar
    /\ Len(batchRequests) = 1

\* C6: no item of a batch request sent has a missing, empty or whitespace-only text.
C6_ItemTextsNonEmpty ==
    \A r \in 1..Len(batchRequests) :
        \A k \in 1..Len(batchRequests[r].texts) :
            /\ batchRequests[r].texts[k].text # Undefined
            /\ ~Blank(batchRequests[r].texts[k].text)

\* C7: the filenames of the items of a batch request are pairwise distinct.
C7_FilenamesDistinct ==
    \A r \in 1..Len(batchRequests) :
        \A j, k \in 1..Len(batchRequests[r].texts) :
            j # k => batchRequests[r].texts[j].filename # batchRequests[r].texts[k].filename

\* C7 witness: a request of eleven items is outstanding.
C7_Witness ==
    \E r \in 1..Len(batchRequests) : Len(batchRequests[r].texts) = 11

\* C8: a single payload carries exactly one of voice and custom_voice_prompt: the
\* prompt if and only if the custom-voice flag is set and the prompt is not blank.
C8_VoiceXorCustomPrompt ==
    \A r \in 1..Len(singleRequests) :
        LET payload == singleRequests[r].payload
            custom == useCustomVoice /\ ~Blank(customVoicePrompt)
        IN  /\ ("custom_voice_prompt" \in DOMAIN payload) <=> custom
            /\ ("voice" \in DOMAIN payload) <=> ~custom

\* C8 witness: with the flag set and a prompt given, a request carrying the prompt
\* is outstanding.
C8_Witness ==
    /\ useCustomVoice /\ customVoicePrompt = <<"a">>
    /\ Len(singleRequests) = 1
    /\ "custom_voice_prompt" \in DOMAIN singleRequests[1].payload

\* C9: a batch request issued by a step carries the batch-level settings of the state
\* the click happened in: use_custom_prompt is the flag, and every item has the batch
\* voice, speed and model and, as custom_voice_prompt, the batch prompt if the flag is
\* set and the empty string if it is not.
C9_BatchSettingsUniform ==
    [][ Len(batchRequests') > Len(batchRequests) =>
          LET body == batchRequests'[Len(batchRequests')]
          IN  /\ body.use_custom_prompt = useBatchCustomVoice
              /\ \A k \in 1..Len(body.texts) :
                    /\ body.texts[k].voice = batchVoice
                    /\ body.texts[k].speed = batchSpeed
                    /\ body.texts[k].model = batchModel
                    /\ body.texts[k].custom_voice_prompt =
                          IF useBatchCustomVoice THEN batchCustomVoicePrompt ELSE <<>>
      ]_vars

\* C9 witness: a request of two items issued with the flag set and a prompt is
\* outstanding, the flag having been cleared since.
C9_Witness ==
    /\ Len(batchRequests) = 1
    /\ Len(batchRequests[1].texts) = 2
    /\ batchRequests[1].use_custom_prompt
    /\ batchRequests[1].texts[2].custom_voice_prompt = <<"a">>
    /\ ~useBatchCustomVoice

\* C11: every step in which a single generation succeeds (an object URL is created)
\* calls play(), the first one after the page is loaded included.
C11_SuccessTriggersPlayback ==
    [][createdUrls' > createdUrls => plays' = plays + 1]_vars

\* C12: saveAs() is called once in the step a batch request succeeds in and in no
\* other step (not when the request fails, not when the click is rejected); no step
\* of the batch handler calls play() or touches the object URLs.
C12_DownloadOncePerBatchSuccess ==
    [][ /\ \A i \in 1..Len(batchRequests) :
              /\ handleBatchGenerate_then(i) => downloads' = downloads + 1
              /\ handleBatchGenerate_catch(i) => downloads' = downloads
        /\ handleBatchGenerate => downloads' = downloads
        /\ downloads' # downloads
              => (Len(batchRequests') = Len(batchRequests) - 1 /\ alerts' = alerts)
        /\ (batchRequests' # batchRequests \/ handleBatchGenerate)
              => UNCHANGED <<singleAudioUrl, plays, createdUrls, revokedUrls>>
      ]_vars

\* C12 witness: two archives have been saved and an alert shown while an audio is
\* held and has been played once.
C12_Witness ==
    /\ downloads = 2 /\ alerts >= 1 /\ batchRequests = <<>>
    /\ singleAudioUrl = 1 /\ plays = 1

\* C13: the step a request fails in shows one alert, clears the loading flag of its
\* kind and changes nothing else but the request's removal: the form fields, the
\* held object URL, the revoked URLs, the downloads and the plays stay; the URL held
\* after a failed single request is the one held when it was issued.
C13_FailureLeavesState ==
    [][ /\ \A i \in 1..Len(singleRequests) :
              handleSingleGenerate_catch(i) =>
                  /\ alerts' = alerts + 1 /\ ~isGenerating'
                  /\ singleAudioUrl' = singleRequests[i].singleAudioUrl
                  /\ UNCHANGED <<batchTexts, formVars, batchFormVars, activeTab, batchVars>>
                  /\ UNCHANGED <<singleAudioUrl, createdUrls, revokedUrls, plays>>
        /\ \A i \in 1..Len(batchRequests) :
              handleBatchGenerate_catch(i) =>
                  /\ alerts' = alerts + 1 /\ ~isGeneratingBatch'
                  /\ UNCHANGED <<batchTexts, formVars, batchFormVars, activeTab, downloads>>
                  /\ UNCHANGED <<singleAudioUrl, isGenerating, singleRequests,
                                 createdUrls, revokedUrls, plays>>
      ]_vars

\* C13 witness: with an audio held, all the alerts of the run have been shown, no
\* request is outstanding, and the audio is still held and not revoked.
C13_Witness ==
    /\ alerts = MaxAlerts /\ singleAudioUrl = 1 /\ revokedUrls = {}
    /\ singleRequests = <<>> /\ batchRequests = <<>>
    /\ ~isGenerating /\ ~isGeneratingBatch

\* C14: a step issues at most one request, and only the click on a button whose
\* loading flag is false does; the step a request fails in removes that request and
\* issues none.
C14_NoRetry ==
    [][ /\ Len(singleRequests') + Len(batchRequests')
              <= Len(singleRequests) + Len(batchRequests) + 1
        /\ Len(singleRequests') > Len(singleRequests)
              => (handleSingleGenerate /\ ~isGenerating /\ alerts' = alerts)
        /\ Len(batchRequests') > Len(batchRequests)
              => (handleBatchGenerate /\ ~isGeneratingBatch /\ alerts' = alerts)
        /\ \A i \in 1..Len(singleRequests) :
              handleSingleGenerate_catch(i) =>
                  (singleRequests' = RemoveAt(singleRequests, i)
                     /\ batchRequests' = batchRequests)
        /\ \A i \in 1..Len(batchRequests) :
              handleBatchGenerate_catch(i) =>
                  (batchRequests' = RemoveAt(batchRequests, i)
                     /\ singleRequests' = singleRequests)
      ]_vars

\* C14 witness: a request of each kind has failed or been rejected, nothing is
\* outstanding and no request succeeded.
C14_Witness ==
    /\ alerts = 2 /\ createdUrls = 0 /\ downloads = 0
    /\ singleRequests = <<>> /\ batchRequests = <<>>
    /\ ~Blank(text) /\ batchInputText = <<DQ, "a", DQ>>

\* C15: a step that changes the single handler's flag or outstanding requests leaves
\* the batch handler's flag and outstanding requests, and the other way round.
C15_SingleAndBatchIndependent ==
    [][ /\ (isGenerating' # isGenerating \/ singleRequests' # singleRequests)
              => UNCHANGED <<isGeneratingBatch, batchRequests>>
        /\ (isGeneratingBatch' # isGeneratingBatch \/ batchRequests' # batchRequests)
              => UNCHANGED <<isGenerating, singleRequests>>
      ]_vars

\* C15 witness: a single request and a batch request are outstanding together, both
\* flags being true.
C15_Witness ==
    /\ isGenerating /\ isGeneratingBatch
    /\ Len(singleRequests) >= 1 /\ Len(batchRequests) >= 1

\* An item of the batch list without its filename
ItemContent(item) == [f \in (DOMAIN item) \ {"filename"} |-> item[f]]

C17_ListFilenamesDistinct ==
    /\ \A j, k \in 1..Len(batchTexts) :
          j # k => batchTexts[j].filename # batchTexts[k].filename
    /\ \A r \in 1..Len(batchRequests) :
          \A j, k \in 1..Len(batchRequests[r].texts) :
              j # k => batchRequests[r].texts[j].filename
                          # batchRequests[r].texts[k].filename

\* C18: in the list-editor variant every item of a batch request sent has a text
\* that is not blank, a voice, a speed within [0.25, 4.0] and a model.
C18_ListItemsComplete ==
    \A r \in 1..Len(batchRequests) :
        \A k \in 1..Len(batchRequests[r].texts) :
            LET item == batchRequests[r].texts[k]
            IN  /\ "text" \in DOMAIN item /\ ~Blank(item.text)
                /\ "voice" \in DOMAIN item
                /\ "speed" \in DOMAIN item /\ item.speed >= 25 /\ item.speed <= 400
                /\ "model" \in DOMAIN item

====
